---- MODULE Spec2Model ----
(***************************************************************************)
(* Behavioural model of mediasoup-go: the Consumer state machine           *)
(* (consumer.go) and the Worker supervisor (worker.go).                    *)
(*                                                                         *)
(* A run exercises one object, named by `unit`: either one Consumer that   *)
(* several threads call into while the channel dispatches the worker's     *)
(* notifications to it, or one Worker from NewWorker to its end.           *)
(***************************************************************************)
EXTENDS Naturals, Integers, Sequences, FiniteSets, TLC

\* ------------------------------------------------------------------ bounds
\* Operations (calls and dispatched notifications) started on the Consumer.
MaxOps == 3
\* Operations started on the Worker after NewWorker.
MaxWorkerOps == 3

Threads == {"t1", "t2"}
NoThread == "none"

\* Abstract values carried by requests and notifications.
Priorities == {2}
LayerValues == {1}
ScoreValues == {7}

VARIABLES
    unit,            \* "Consumer" or "Worker": the object this run exercises
    \* --- Consumer fields (consumer.go:168-185)
    closed,          \* uint32 closed flag, 0 or 1
    paused,
    producerPaused,
    priority,
    score,
    preferredLayers,
    currentLayers,
    locker,          \* holder of consumer.locker, or NoThread
    \* --- the Consumer's environment
    params,          \* consumerParams given to newConsumer
    chanListener,    \* a listener is registered on channel under the consumer id
    payListener,     \* a listener is registered on payloadChannel under the id
    workerHas,       \* the worker process still has this consumer
    \* --- threads calling into the Consumer
    pc,
    wasPaused,       \* the local wasPaused of Pause/Resume/handlers
    arg,             \* the argument of the running call
    call,            \* per thread: the running call
    ret,             \* per thread: what its last finished call returned
    \* --- what the Consumer did
    log,             \* requests sent and events emitted, in order
    emitted,         \* score/layerschange/trace/rtp events emitted (facts)
    writes,          \* field writes: which field, and whether under the mutex
    nops,
    \* --- Worker fields (worker.go:235-258)
    w_child,         \* "cmd" or "nil"
    w_closed,
    w_spawnDone,
    w_routers,       \* keys of the routers map
    \* --- the Worker's environment
    newWorker,       \* what NewWorker returned: "pending", "ok" or "error"
    proc,            \* the child process: "none", "started", "exited"
    exitCode,
    running,         \* the "running" notification: "no", "handling", "done"
    onceListener,    \* the channel.Once listener under the pid is registered
    waiter,          \* the goroutine NewWorker starts: "none", "waiting", "done"
    channelClosed,
    routerClosed,    \* per router: its closed flag
    workerRouters,   \* routers the worker process has
    nextRouter,      \* routers created so far
    \* --- threads calling into the Worker
    wpc,
    wloc,            \* per thread: the locals of its running call
    \* --- what the Worker did
    wlog,            \* signals, channel closes, cascades and events, in order
    wops,
    waits,           \* calls of wait() so far
    concurrent,      \* a call on the Worker began while another was running
    \* --- the PipeTransport that owns consumers (rtp_capabilities.go:398-406)
    consumers,       \* keys of the base transport's consumers map
    \* --- the PipeTransport's environment
    consumerOpen,    \* per consumer built by Consume: it has not closed
    nextConsumer,    \* consumers ids generated so far
    listeners,       \* <<consumer, event>>: Consume's listener for it is registered
    sctpState,       \* transport.data.sctpState; "" when SCTP is not in use
    t_closed,        \* the base transport's closed flag
    t_listener,      \* the channel listener under the transport's id is registered
    \* --- threads calling into the PipeTransport
    tpc,
    tloc,            \* per thread: the locals of its running Consume
    \* --- what the PipeTransport did
    tlog,            \* requests, stores, deletes and events, in order
    tops,
    \* --- the RTP capabilities table (rtp_capabilities.go:74-321) and its users
    heap,            \* the arrays and objects that slices and pointers refer to
    returned,        \* per caller: the value GetSupportedRtpCapabilities gave it
    modifiedBy,      \* callers that have changed something through their value
    gops,
    \* --- NewWorker's sockets (worker.go:275-307)
    sockets          \* socket endpoints open when NewWorker has returned

cvars == <<closed, paused, producerPaused, priority, score, preferredLayers,
           currentLayers, locker, params, chanListener, payListener, workerHas,
           pc, wasPaused, arg, call, ret, log, emitted, writes, nops>>

wvars == <<w_child, w_closed, w_spawnDone, w_routers, newWorker, proc, exitCode,
           running, onceListener, waiter, channelClosed, routerClosed,
           workerRouters, nextRouter, wpc, wloc, wlog, wops, waits, concurrent>>

tvars == <<consumerOpen, nextConsumer, listeners, sctpState, t_closed, t_listener,
           tpc, tloc, tlog, tops>>

\* What a step of the Consumer leaves alone, what a step of the Worker does,
\* and what a step of the PipeTransport does.
gvars == <<heap, returned, modifiedBy, gops>>

wside == <<unit, wvars, tvars, gvars, sockets>>
oside == <<unit, cvars, tvars, consumers, gvars>>
cside == <<oside, sockets>>
tside == <<unit, cvars, wvars, gvars, sockets>>
gside == <<unit, cvars, wvars, tvars, consumers, sockets>>

vars == <<unit, cvars, wvars, tvars, consumers, gvars, sockets>>

NoCall == [op |-> "none", closedAtCall |-> FALSE]

MaxRouters == 2
\* Calls of Worker.wait.
MaxWaits == 1
RouterIds == 1..MaxRouters

\* The exit code by which the worker process reports wrong settings.
WrongSettingsCode == 42
ExitCodes == {1, WrongSettingsCode}

NoLocals == [rid |-> 0, codecsOk |-> FALSE, closedAtCall |-> FALSE,
             inWait |-> FALSE, code |-> 0, err |-> "none"]

\* No Worker yet: the state NewWorker starts from.
NoWorker ==
    /\ w_child = "nil"
    /\ w_closed = FALSE
    /\ w_spawnDone = FALSE
    /\ w_routers = {}
    /\ newWorker = "pending"
    /\ proc = "none"
    /\ exitCode = 0
    /\ running = "no"
    /\ onceListener = FALSE
    /\ waiter = "none"
    /\ channelClosed = FALSE
    /\ routerClosed = <<>>
    /\ workerRouters = {}
    /\ nextRouter = 0
    /\ wpc = [t \in Threads |-> "idle"]
    /\ wloc = [t \in Threads |-> NoLocals]
    /\ wlog = <<>>
    /\ wops = 0
    /\ waits = 0
    /\ concurrent = FALSE
    /\ sockets = {}

MaxConsumers == 2
\* Calls of Consume and closes of consumers on the PipeTransport.
MaxTransportOps == 3
ConsumerIds == 1..MaxConsumers

\* The Consumer whose methods the Consumer unit runs.
ThisConsumer == 1

\* Producer ids a caller may pass to Consume, and those the router knows.
ProducerIds == {"p1", "p2"}
KnownProducers == {"p1"}

NoConsume == [pid |-> "none", cid |-> 0, n |-> 0, err |-> "none"]

\* data.sctpState as newPipeTransport gets it (without and with SCTP), as
\* Close and routerClosed set it, and as the worker notifies it.
SctpStatesAtStart == {"", "new"}
SctpState_Closed == "closed"
SctpStatesNotified == {"connected"}

\* A PipeTransport on which nothing was called yet: open, with the listener
\* handleWorkerNotifications has registered.
NoTransport ==
    /\ consumerOpen = <<>>
    /\ nextConsumer = 0
    /\ listeners = {}
    /\ t_closed = FALSE
    /\ t_listener = TRUE
    /\ tpc = [t \in Threads |-> "idle"]
    /\ tloc = [t \in Threads |-> NoConsume]
    /\ tlog = <<>>
    /\ tops = 0

\* Callers of GetSupportedRtpCapabilities, and what they do with the result.
MaxCallers == 2
MaxCapsOps == 4
Callers == 1..MaxCallers

\* Memory: the backing array of a Codecs slice, the RtpParameter a codec's
\* Parameters points to, the backing array of a codec's RtcpFeedback, the
\* backing array of a HeaderExtensions slice. Owner 0 is the package's
\* variable supportedRtpCapabilities; owner i is memory allocated for caller i.
Cells == {"codecs", "parameters", "rtcpFeedback", "headerExtensions"}
Loc(cell, o) == [cell |-> cell, owner |-> o]
Locs == [cell : Cells, owner : 0..MaxCallers]

\* The package variable: its slices refer to the arrays of owner 0.
supportedRtpCapabilities ==
    [Codecs |-> Loc("codecs", 0), HeaderExtensions |-> Loc("headerExtensions", 0)]

\* The memory as the package initialises it: the table's arrays hold the
\* built-in entries, the codecs refer to the table's parameters and
\* feedback; nothing else is allocated.
InitialHeap ==
    [l \in Locs |-> IF l.owner = 0 THEN [val |-> "builtin", refs |-> 0]
                                    ELSE [val |-> "free", refs |-> 0]]

\* No call of GetSupportedRtpCapabilities yet.
NoCapabilities ==
    /\ heap = InitialHeap
    /\ returned = <<>>
    /\ modifiedBy = {}
    /\ gops = 0

\* ----------------------------------------------------------- construction
\* newConsumer: paused and producerPaused come from the params, the score
\* defaults to 10, priority keeps Go's zero value, both listeners are
\* registered by handleWorkerNotifications.
InitConsumer ==
    /\ unit = "Consumer"
    /\ closed = 0
    /\ params \in [paused : BOOLEAN, producerPaused : BOOLEAN]
    /\ paused = params.paused
    /\ producerPaused = params.producerPaused
    /\ priority = 0
    /\ score = 10
    /\ preferredLayers = 0
    /\ currentLayers = 0
    /\ locker = NoThread
    /\ chanListener = TRUE
    /\ payListener = TRUE
    /\ workerHas = TRUE
    /\ pc = [t \in Threads |-> "idle"]
    /\ wasPaused = [t \in Threads |-> FALSE]
    /\ arg = [t \in Threads |-> 0]
    /\ call = [t \in Threads |-> NoCall]
    /\ ret = [t \in Threads |-> "none"]
    /\ log = <<>>
    /\ emitted = {}
    /\ writes = {}
    /\ nops = 0
    /\ NoWorker
    /\ consumers = {ThisConsumer}
    /\ NoTransport
    /\ sctpState = ""
    /\ NoCapabilities

\* ------------------------------------------------------------------ helpers
Closed == closed > 0

\* One entry of the log: a request sent ("req"), an event emitted on the
\* Consumer itself ("emit") or on its observer ("obs"), with whether the
\* emitting thread held consumer.locker.
Entry(t, k, ev) == [k |-> k, ev |-> ev, locked |-> (locker = t)]

\* The worker's answer to a request that names this consumer: it accepts only
\* while it still has the consumer; any request can also fail.
WorkerResponse == IF workerHas THEN {"ok", "Error"} ELSE {"Error"}

Start(t) ==
    /\ unit = "Consumer"
    /\ pc[t] = "idle"
    /\ nops < MaxOps
    /\ nops' = nops + 1

\* The record of a running call: what was called, and whether the Consumer
\* was closed when the call began.
Pending(op) == [op |-> op, closedAtCall |-> Closed]

At(t, label) == unit = "Consumer" /\ pc[t] = label
Goto(t, label) == pc' = [pc EXCEPT ![t] = label]

\* A call returns err to its caller; a notification handler just ends.
Return(t, err) ==
    /\ pc' = [pc EXCEPT ![t] = "idle"]
    /\ call' = [call EXCEPT ![t] = NoCall]
    /\ ret' = [ret EXCEPT ![t] = err]

Finish(t) ==
    /\ pc' = [pc EXCEPT ![t] = "idle"]
    /\ call' = [call EXCEPT ![t] = NoCall]
    /\ UNCHANGED ret

\* A test-less swap: the flag is set whatever it held.
SwapWithoutCompare == TRUE

\* atomic.CompareAndSwapUint32(&consumer.closed, 0, 1): whether the swap is made.
CompareAndSwapClosed == closed = 0

\* The listeners PipeTransport.Consume registers on the consumer for "@close"
\* and "@producerclose": consumers.Delete(consumer.Id()).
DeleteConsumer(c) == consumers \ {c}

\* ------------------------------------------------------------- Consumer.Close
\* Close: the CAS on the closed bit; a caller that loses it returns at once.
Close(t) ==
    /\ Start(t)
    /\ IF CompareAndSwapClosed
         THEN /\ closed' = 1
              /\ Goto(t, "close_remove")
              /\ call' = [call EXCEPT ![t] = Pending("Close")]
              /\ UNCHANGED ret
         ELSE /\ UNCHANGED <<closed, pc, call>>
              /\ ret' = [ret EXCEPT ![t] = "ok"]
    /\ UNCHANGED <<paused, producerPaused, priority, score, preferredLayers,
                   currentLayers, locker, params, chanListener, payListener,
                   workerHas, wasPaused, arg, log, emitted, writes, consumers, wside>>

\* Close, after the CAS: both listeners are removed and "consumer.close" is
\* sent; the caller then waits for the response.
CloseRequest(t) ==
    /\ At(t, "close_remove")
    /\ chanListener' = FALSE
    /\ payListener' = FALSE
    /\ log' = Append(log, Entry(t, "req", "consumer.close"))
    /\ Goto(t, "close_wait")
    /\ UNCHANGED <<closed, paused, producerPaused, priority, score, preferredLayers,
                   currentLayers, locker, params, workerHas, wasPaused, arg, call,
                   emitted, writes, nops, ret, consumers, wside>>

\* A Close that takes the closed flag back when it has sent its request.
CloseEmitReopening(t) ==
    /\ At(t, "close_wait")
    /\ closed' = 0
    /\ workerHas' = FALSE
    /\ log' = log \o <<Entry(t, "emit", "@close"), Entry(t, "obs", "close")>>
    /\ Return(t, "ok")
    /\ consumers' = DeleteConsumer(ThisConsumer)
    /\ UNCHANGED <<paused, producerPaused, priority, score, preferredLayers,
                   currentLayers, locker, params, chanListener, payListener,
                   wasPaused, arg, emitted, writes, nops, wside>>

\* Close, once the response is in (it is not looked at): "@close", then the
\* observer's "close". The worker has dropped the consumer.
CloseEmit(t) ==
    /\ At(t, "close_wait")
    /\ workerHas' = FALSE
    /\ log' = log \o <<Entry(t, "emit", "@close"), Entry(t, "obs", "close")>>
    /\ Return(t, "ok")
    /\ consumers' = DeleteConsumer(ThisConsumer)
    /\ UNCHANGED <<closed, paused, producerPaused, priority, score, preferredLayers,
                   currentLayers, locker, params, chanListener, payListener,
                   wasPaused, arg, emitted, writes, nops, wside>>

\* --------------------------------------------------- Consumer.transportClosed
\* transportClosed is called by the owning transport, which the worker has
\* closed already, so the worker has no such consumer any more.
TransportClosed(t) ==
    /\ Start(t)
    /\ workerHas' = FALSE
    /\ IF CompareAndSwapClosed
         THEN /\ closed' = 1
              /\ Goto(t, "tc_remove")
              /\ call' = [call EXCEPT ![t] = Pending("transportClosed")]
         ELSE UNCHANGED <<closed, pc, call>>
    /\ UNCHANGED ret
    /\ UNCHANGED <<paused, producerPaused, priority, score, preferredLayers,
                   currentLayers, locker, params, chanListener, payListener,
                   wasPaused, arg, log, emitted, writes, consumers, wside>>

\* A transportClosed that, like Close, tells the worker.
TransportClosedEmitWithRequest(t) ==
    /\ At(t, "tc_remove")
    /\ chanListener' = FALSE
    /\ payListener' = FALSE
    /\ log' = log \o <<Entry(t, "req", "consumer.close"),
                       Entry(t, "emit", "transportclose"), Entry(t, "obs", "close")>>
    /\ Finish(t)
    /\ UNCHANGED <<closed, paused, producerPaused, priority, score, preferredLayers,
                   currentLayers, locker, params, workerHas, wasPaused, arg,
                   emitted, writes, nops, consumers, wside>>

\* transportClosed, after the CAS: both listeners are removed, then
\* "transportclose" and the observer's "close".
TransportClosedEmit(t) ==
    /\ At(t, "tc_remove")
    /\ chanListener' = FALSE
    /\ payListener' = FALSE
    /\ log' = log \o <<Entry(t, "emit", "transportclose"), Entry(t, "obs", "close")>>
    /\ Finish(t)
    /\ UNCHANGED <<closed, paused, producerPaused, priority, score, preferredLayers,
                   currentLayers, locker, params, workerHas, wasPaused, arg,
                   emitted, writes, nops, consumers, wside>>

\* ------------------------------------------- notification "producerclose"
\* The channel hands "producerclose" to the listener registered under the
\* consumer id. The worker sends it after it has dropped the consumer.
NotifyProducerClose(t) ==
    /\ Start(t)
    /\ chanListener
    /\ workerHas' = FALSE
    /\ Goto(t, "pc_cas")
    /\ call' = [call EXCEPT ![t] = Pending("producerclose")]
    /\ UNCHANGED <<closed, paused, producerPaused, priority, score, preferredLayers,
                   currentLayers, locker, params, chanListener, payListener,
                   wasPaused, arg, log, emitted, writes, ret, consumers, wside>>

ProducerCloseCAS(t) ==
    /\ At(t, "pc_cas")
    /\ IF CompareAndSwapClosed
         THEN /\ closed' = 1
              /\ Goto(t, "pc_emit")
              /\ UNCHANGED <<call, ret>>
         ELSE /\ UNCHANGED closed
              /\ Finish(t)
    /\ UNCHANGED <<paused, producerPaused, priority, score, preferredLayers,
                   currentLayers, locker, params, chanListener, payListener,
                   workerHas, wasPaused, arg, log, emitted, writes, nops, consumers, wside>>

\* A "producerclose" handler that, like Close, tells the worker.
ProducerCloseEmitWithRequest(t) ==
    /\ At(t, "pc_emit")
    /\ chanListener' = FALSE
    /\ log' = log \o <<Entry(t, "req", "consumer.close"),
                       Entry(t, "emit", "@producerclose"),
                       Entry(t, "emit", "producerclose"),
                       Entry(t, "obs", "close")>>
    /\ Finish(t)
    /\ consumers' = DeleteConsumer(ThisConsumer)
    /\ UNCHANGED <<closed, paused, producerPaused, priority, score, preferredLayers,
                   currentLayers, locker, params, payListener, workerHas,
                   wasPaused, arg, emitted, writes, nops, wside>>

\* Only the channel's listeners are removed on this path.
ProducerCloseEmit(t) ==
    /\ At(t, "pc_emit")
    /\ chanListener' = FALSE
    /\ log' = log \o <<Entry(t, "emit", "@producerclose"),
                       Entry(t, "emit", "producerclose"),
                       Entry(t, "obs", "close")>>
    /\ Finish(t)
    /\ consumers' = DeleteConsumer(ThisConsumer)
    /\ UNCHANGED <<closed, paused, producerPaused, priority, score, preferredLayers,
                   currentLayers, locker, params, payListener, workerHas,
                   wasPaused, arg, emitted, writes, nops, wside>>

\* ------------------------------------------------------------ Consumer.Pause
\* Whether a step that has just made the Consumer paused (effective value:
\* paused or producerPaused) emits the observer's "pause".
EmitsPause(was) == ~was

\* Resume announcing "resume" without looking at producerPaused.
ResumeEmitsIfWasPaused(was) == was

\* Whether Resume, having cleared paused, emits the observer's "resume".
ResumeEmitsResume(was) == was /\ ~producerPaused

\* Whether the "producerresume" handler, having cleared producerPaused, emits
\* the observer's "resume".
ProducerResumeEmitsResume(was) == was /\ ~paused

\* Lock(); wasPaused := paused || producerPaused; the request is sent and
\* the caller waits for the response with the mutex held.
PauseLock(t) ==
    /\ Start(t)
    /\ locker = NoThread
    /\ locker' = t
    /\ wasPaused' = [wasPaused EXCEPT ![t] = paused \/ producerPaused]
    /\ Goto(t, "pause_wait")
    /\ call' = [call EXCEPT ![t] = Pending("Pause")]
    /\ UNCHANGED <<closed, paused, producerPaused, priority, score, preferredLayers,
                   currentLayers, params, chanListener, payListener, workerHas,
                   arg, log, emitted, writes, ret, consumers, wside>>

\* A Pause that sets paused and emits whatever the response, and returns the
\* response's error afterwards.
PauseResponseIgnoringError(t, rsp) ==
    /\ At(t, "pause_wait")
    /\ rsp \in WorkerResponse
    /\ paused' = TRUE
    /\ writes' = writes \cup {[field |-> "paused", locked |-> (locker = t)]}
    /\ log' = IF EmitsPause(wasPaused[t])
                THEN Append(log, Entry(t, "obs", "pause")) ELSE log
    /\ Return(t, rsp)
    /\ locker' = NoThread
    /\ wasPaused' = [wasPaused EXCEPT ![t] = FALSE]
    /\ UNCHANGED <<closed, producerPaused, priority, score, preferredLayers,
                   currentLayers, params, chanListener, payListener, workerHas,
                   arg, emitted, nops, consumers, wside>>

\* The response: an error is returned as it is; otherwise paused is set and,
\* if the Consumer was not paused before, the observer's "pause" is emitted.
\* The deferred Unlock runs on return.
PauseResponse(t, rsp) ==
    /\ At(t, "pause_wait")
    /\ rsp \in WorkerResponse
    /\ IF rsp # "ok"
         THEN /\ Return(t, rsp)
              /\ UNCHANGED <<paused, log, writes>>
         ELSE /\ paused' = TRUE
              /\ writes' = writes \cup {[field |-> "paused", locked |-> (locker = t)]}
              /\ log' = IF EmitsPause(wasPaused[t])
                          THEN Append(log, Entry(t, "obs", "pause")) ELSE log
              /\ Return(t, "ok")
    /\ locker' = NoThread
    /\ wasPaused' = [wasPaused EXCEPT ![t] = FALSE]
    /\ UNCHANGED <<closed, producerPaused, priority, score, preferredLayers,
                   currentLayers, params, chanListener, payListener, workerHas,
                   arg, emitted, nops, consumers, wside>>

\* ----------------------------------------------------------- Consumer.Resume
ResumeLock(t) ==
    /\ Start(t)
    /\ locker = NoThread
    /\ locker' = t
    /\ wasPaused' = [wasPaused EXCEPT ![t] = paused \/ producerPaused]
    /\ Goto(t, "resume_wait")
    /\ call' = [call EXCEPT ![t] = Pending("Resume")]
    /\ UNCHANGED <<closed, paused, producerPaused, priority, score, preferredLayers,
                   currentLayers, params, chanListener, payListener, workerHas,
                   arg, log, emitted, writes, ret, consumers, wside>>

ResumeResponse(t, rsp) ==
    /\ At(t, "resume_wait")
    /\ rsp \in WorkerResponse
    /\ IF rsp # "ok"
         THEN /\ Return(t, rsp)
              /\ UNCHANGED <<paused, log, writes>>
         ELSE /\ paused' = FALSE
              /\ writes' = writes \cup {[field |-> "paused", locked |-> (locker = t)]}
              /\ log' = IF ResumeEmitsResume(wasPaused[t])
                          THEN Append(log, Entry(t, "obs", "resume")) ELSE log
              /\ Return(t, "ok")
    /\ locker' = NoThread
    /\ wasPaused' = [wasPaused EXCEPT ![t] = FALSE]
    /\ UNCHANGED <<closed, producerPaused, priority, score, preferredLayers,
                   currentLayers, params, chanListener, payListener, workerHas,
                   arg, emitted, nops, consumers, wside>>

\* ------------------------- notifications "producerpause" / "producerresume"
\* The channel hands the notification to the registered listener; the handler
\* then has to take consumer.locker.
NotifyProducerPause(t) ==
    /\ Start(t)
    /\ chanListener
    /\ Goto(t, "pp_lock")
    /\ call' = [call EXCEPT ![t] = Pending("producerpause")]
    /\ UNCHANGED <<closed, paused, producerPaused, priority, score, preferredLayers,
                   currentLayers, locker, params, chanListener, payListener,
                   workerHas, wasPaused, arg, log, emitted, writes, ret, consumers, wside>>

ProducerPauseLock(t) ==
    /\ At(t, "pp_lock")
    /\ locker = NoThread
    /\ locker' = t
    /\ Goto(t, "pp_body")
    /\ UNCHANGED <<closed, paused, producerPaused, priority, score, preferredLayers,
                   currentLayers, params, chanListener, payListener, workerHas,
                   wasPaused, arg, call, log, emitted, writes, nops, ret, consumers, wside>>

\* A handler that does not look at producerPaused before it sets it.
ProducerPauseBodyUnchecked(t) ==
    /\ At(t, "pp_body")
    /\ producerPaused' = TRUE
    /\ writes' = writes \cup {[field |-> "producerPaused", locked |-> (locker = t)]}
    /\ log' = log \o <<Entry(t, "emit", "producerpause")>>
                  \o (IF EmitsPause(paused \/ producerPaused)
                        THEN <<Entry(t, "obs", "pause")>> ELSE <<>>)
    /\ locker' = NoThread
    /\ Finish(t)
    /\ UNCHANGED <<closed, paused, priority, score, preferredLayers, currentLayers,
                   params, chanListener, payListener, workerHas, wasPaused, arg,
                   emitted, nops, consumers, wside>>

\* Under the mutex: nothing if producerPaused is set already; else it is set,
\* "producerpause" is emitted and, if the Consumer was not paused, the
\* observer's "pause". The deferred Unlock runs when the handler returns.
ProducerPauseBody(t) ==
    /\ At(t, "pp_body")
    /\ IF producerPaused
         THEN UNCHANGED <<producerPaused, log, writes>>
         ELSE /\ producerPaused' = TRUE
              /\ writes' = writes \cup {[field |-> "producerPaused", locked |-> (locker = t)]}
              /\ log' = log \o <<Entry(t, "emit", "producerpause")>>
                            \o (IF EmitsPause(paused \/ producerPaused)
                                  THEN <<Entry(t, "obs", "pause")>> ELSE <<>>)
    /\ locker' = NoThread
    /\ Finish(t)
    /\ UNCHANGED <<closed, paused, priority, score, preferredLayers, currentLayers,
                   params, chanListener, payListener, workerHas, wasPaused, arg,
                   emitted, nops, consumers, wside>>

NotifyProducerResume(t) ==
    /\ Start(t)
    /\ chanListener
    /\ Goto(t, "pr_lock")
    /\ call' = [call EXCEPT ![t] = Pending("producerresume")]
    /\ UNCHANGED <<closed, paused, producerPaused, priority, score, preferredLayers,
                   currentLayers, locker, params, chanListener, payListener,
                   workerHas, wasPaused, arg, log, emitted, writes, ret, consumers, wside>>

ProducerResumeLock(t) ==
    /\ At(t, "pr_lock")
    /\ locker = NoThread
    /\ locker' = t
    /\ Goto(t, "pr_body")
    /\ UNCHANGED <<closed, paused, producerPaused, priority, score, preferredLayers,
                   currentLayers, params, chanListener, payListener, workerHas,
                   wasPaused, arg, call, log, emitted, writes, nops, ret, consumers, wside>>

ProducerResumeBody(t) ==
    /\ At(t, "pr_body")
    /\ IF ~producerPaused
         THEN UNCHANGED <<producerPaused, log, writes>>
         ELSE /\ producerPaused' = FALSE
              /\ writes' = writes \cup {[field |-> "producerPaused", locked |-> (locker = t)]}
              /\ log' = log \o <<Entry(t, "emit", "producerresume")>>
                            \o (IF ProducerResumeEmitsResume(paused \/ producerPaused)
                                  THEN <<Entry(t, "obs", "resume")>> ELSE <<>>)
    /\ locker' = NoThread
    /\ Finish(t)
    /\ UNCHANGED <<closed, paused, priority, score, preferredLayers, currentLayers,
                   params, chanListener, payListener, workerHas, wasPaused, arg,
                   emitted, nops, consumers, wside>>

\* ---------------------------------- Consumer.SetPriority / UnsetPriority
\* The request is sent without taking consumer.locker.
SetPriorityRequest(t, p, op) ==
    /\ Start(t)
    /\ arg' = [arg EXCEPT ![t] = p]
    /\ Goto(t, "priority_wait")
    /\ call' = [call EXCEPT ![t] = Pending(op)]
    /\ UNCHANGED <<closed, paused, producerPaused, priority, score, preferredLayers,
                   currentLayers, locker, params, chanListener, payListener,
                   workerHas, wasPaused, log, emitted, writes, ret, consumers, wside>>

SetPriority(t, p) == SetPriorityRequest(t, p, "SetPriority")

\* UnsetPriority is SetPriority(1).
UnsetPriority(t) == SetPriorityRequest(t, 1, "UnsetPriority")

\* The response carries the priority the worker has set.
SetPriorityResponse(t, rsp) ==
    /\ At(t, "priority_wait")
    /\ rsp \in WorkerResponse
    /\ IF rsp # "ok"
         THEN /\ Return(t, rsp)
              /\ UNCHANGED <<priority, writes>>
         ELSE /\ priority' = arg[t]
              /\ writes' = writes \cup {[field |-> "priority", locked |-> (locker = t)]}
              /\ Return(t, "ok")
    /\ arg' = [arg EXCEPT ![t] = 0]
    /\ UNCHANGED <<closed, paused, producerPaused, score, preferredLayers,
                   currentLayers, locker, params, chanListener, payListener,
                   workerHas, wasPaused, log, emitted, nops, consumers, wside>>

\* ------------------------------------------- Consumer.SetPreferredLayers
SetPreferredLayers(t, layers) ==
    /\ Start(t)
    /\ arg' = [arg EXCEPT ![t] = layers]
    /\ Goto(t, "layers_wait")
    /\ call' = [call EXCEPT ![t] = Pending("SetPreferredLayers")]
    /\ UNCHANGED <<closed, paused, producerPaused, priority, score, preferredLayers,
                   currentLayers, locker, params, chanListener, payListener,
                   workerHas, wasPaused, log, emitted, writes, ret, consumers, wside>>

\* response.Unmarshal(&consumer.preferredLayers): an error response writes
\* nothing, an accepted one stores the layers the worker answers.
SetPreferredLayersResponse(t, rsp) ==
    /\ At(t, "layers_wait")
    /\ rsp \in WorkerResponse
    /\ IF rsp # "ok"
         THEN /\ Return(t, rsp)
              /\ UNCHANGED <<preferredLayers, writes>>
         ELSE /\ preferredLayers' = arg[t]
              /\ writes' = writes \cup {[field |-> "preferredLayers", locked |-> (locker = t)]}
              /\ Return(t, "ok")
    /\ arg' = [arg EXCEPT ![t] = 0]
    /\ UNCHANGED <<closed, paused, producerPaused, priority, score, currentLayers,
                   locker, params, chanListener, payListener, workerHas,
                   wasPaused, log, emitted, nops, consumers, wside>>

\* ------- Consumer.Dump / GetStats / RequestKeyFrame / EnableTraceEvent
\* Each sends one request and returns what the response says.
RequestOps == {"Dump", "GetStats", "RequestKeyFrame", "EnableTraceEvent"}

SimpleRequest(t, op) ==
    /\ Start(t)
    /\ op \in RequestOps
    /\ Goto(t, "request_wait")
    /\ call' = [call EXCEPT ![t] = Pending(op)]
    /\ UNCHANGED <<closed, paused, producerPaused, priority, score, preferredLayers,
                   currentLayers, locker, params, chanListener, payListener,
                   workerHas, wasPaused, arg, log, emitted, writes, ret, consumers, wside>>

SimpleResponse(t, rsp) ==
    /\ At(t, "request_wait")
    /\ rsp \in WorkerResponse
    /\ Return(t, rsp)
    /\ UNCHANGED <<closed, paused, producerPaused, priority, score, preferredLayers,
                   currentLayers, locker, params, chanListener, payListener,
                   workerHas, wasPaused, arg, log, emitted, writes, nops, consumers, wside>>

\* ------------------------ notifications "score", "layerschange", "trace"
\* An event emitted by one of these handlers, with the closed flag it saw.
Fact(k, ev) == [k |-> k, ev |-> ev, closed |-> Closed]

NotifyScore(t, sc) ==
    /\ Start(t)
    /\ chanListener
    /\ score' = sc
    /\ writes' = writes \cup {[field |-> "score", locked |-> (locker = t)]}
    /\ emitted' = emitted \cup {Fact("emit", "score"), Fact("obs", "score")}
    /\ UNCHANGED <<call, ret>>
    /\ UNCHANGED <<closed, paused, producerPaused, priority, preferredLayers,
                   currentLayers, locker, params, chanListener, payListener,
                   workerHas, pc, wasPaused, arg, log, consumers, wside>>

NotifyLayersChange(t, layers) ==
    /\ Start(t)
    /\ chanListener
    /\ currentLayers' = layers
    /\ writes' = writes \cup {[field |-> "currentLayers", locked |-> (locker = t)]}
    /\ emitted' = emitted \cup {Fact("emit", "layerschange"), Fact("obs", "layerschange")}
    /\ UNCHANGED <<call, ret>>
    /\ UNCHANGED <<closed, paused, producerPaused, priority, score, preferredLayers,
                   locker, params, chanListener, payListener, workerHas, pc,
                   wasPaused, arg, log, consumers, wside>>

NotifyTrace(t) ==
    /\ Start(t)
    /\ chanListener
    /\ emitted' = emitted \cup {Fact("emit", "trace"), Fact("obs", "trace")}
    /\ UNCHANGED <<call, ret>>
    /\ UNCHANGED <<closed, paused, producerPaused, priority, score, preferredLayers,
                   currentLayers, locker, params, chanListener, payListener,
                   workerHas, pc, wasPaused, arg, log, writes, consumers, wside>>

\* ------------------------------------- payload channel notification "rtp"
\* The handler returns if the Consumer is closed, and emits "rtp" otherwise.
NotifyRtp(t) ==
    /\ Start(t)
    /\ payListener
    /\ IF Closed
         THEN UNCHANGED <<pc, call>>
         ELSE /\ call' = [call EXCEPT ![t] = Pending("rtp")]
              /\ Goto(t, "rtp_emit")
    /\ UNCHANGED <<closed, paused, producerPaused, priority, score, preferredLayers,
                   currentLayers, locker, params, chanListener, payListener,
                   workerHas, wasPaused, arg, log, emitted, writes, ret, consumers, wside>>

RtpEmit(t) ==
    /\ At(t, "rtp_emit")
    /\ emitted' = emitted \cup {Fact("emit", "rtp")}
    /\ Finish(t)
    /\ UNCHANGED <<closed, paused, producerPaused, priority, score, preferredLayers,
                   currentLayers, locker, params, chanListener, payListener,
                   workerHas, wasPaused, arg, log, writes, nops, consumers, wside>>

\* ------------------------------------------------------------ the Consumer
ConsumerNext ==
    \E t \in Threads :
        \/ Close(t) \/ CloseRequest(t) \/ CloseEmit(t)
        \/ TransportClosed(t) \/ TransportClosedEmit(t)
        \/ NotifyProducerClose(t) \/ ProducerCloseCAS(t) \/ ProducerCloseEmit(t)
        \/ PauseLock(t) \/ (\E rsp \in {"ok", "Error"} : PauseResponse(t, rsp))
        \/ ResumeLock(t) \/ (\E rsp \in {"ok", "Error"} : ResumeResponse(t, rsp))
        \/ NotifyProducerPause(t) \/ ProducerPauseLock(t) \/ ProducerPauseBody(t)
        \/ NotifyProducerResume(t) \/ ProducerResumeLock(t) \/ ProducerResumeBody(t)
        \/ (\E p \in Priorities : SetPriority(t, p)) \/ UnsetPriority(t)
        \/ (\E rsp \in {"ok", "Error"} : SetPriorityResponse(t, rsp))
        \/ (\E l \in LayerValues : SetPreferredLayers(t, l))
        \/ (\E rsp \in {"ok", "Error"} : SetPreferredLayersResponse(t, rsp))
        \/ (\E op \in RequestOps : SimpleRequest(t, op))
        \/ (\E rsp \in {"ok", "Error"} : SimpleResponse(t, rsp))
        \/ (\E sc \in ScoreValues : NotifyScore(t, sc))
        \/ (\E l \in LayerValues : NotifyLayersChange(t, l))
        \/ NotifyTrace(t)
        \/ NotifyRtp(t) \/ RtpEmit(t)

SpecConsumer == InitConsumer /\ [][ConsumerNext]_vars

\* =================================================================== Worker
\* A run of the Worker unit starts where NewWorker is called; the Consumer
\* side stays as constructed.
InitWorker ==
    /\ unit = "Worker"
    /\ closed = 0
    /\ params = [paused |-> FALSE, producerPaused |-> FALSE]
    /\ paused = FALSE
    /\ producerPaused = FALSE
    /\ priority = 0
    /\ score = 10
    /\ preferredLayers = 0
    /\ currentLayers = 0
    /\ locker = NoThread
    /\ chanListener = TRUE
    /\ payListener = TRUE
    /\ workerHas = TRUE
    /\ pc = [t \in Threads |-> "idle"]
    /\ wasPaused = [t \in Threads |-> FALSE]
    /\ arg = [t \in Threads |-> 0]
    /\ call = [t \in Threads |-> NoCall]
    /\ ret = [t \in Threads |-> "none"]
    /\ log = <<>>
    /\ emitted = {}
    /\ writes = {}
    /\ nops = 0
    /\ NoWorker
    /\ consumers = {}
    /\ NoTransport
    /\ sctpState = ""
    /\ NoCapabilities

\* One entry of the Worker's log; r names the router of a cascade.
W(ev) == [ev |-> ev, r |-> 0]

WAt(t, label) == unit = "Worker" /\ newWorker = "ok" /\ wpc[t] = label
WGoto(t, label) == wpc' = [wpc EXCEPT ![t] = label]

WStart(t) ==
    /\ WAt(t, "idle")
    /\ wops < MaxWorkerOps
    /\ wops' = wops + 1
    /\ concurrent' = (concurrent \/ \E u \in Threads \ {t} : wpc[u] # "idle")

\* ------------------------------------------------------------------ NewWorker
\* The steps of NewWorker that can fail, in the order it takes them: four
\* socket pairs, four conversions of a pair's local file to a connection, the
\* two stdio pipes, child.Start.
NewWorkerSteps ==
    <<"producerPair", "consumerPair", "payloadProducerPair", "payloadConsumerPair",
      "producerSocket", "consumerSocket", "payloadProducerSocket",
      "payloadConsumerSocket", "StderrPipe", "StdoutPipe", "Start">>

Pairs == 1..4
FirstConn == 5
IsConnStep(n) == n \in FirstConn..(FirstConn + 3)

\* A socket endpoint: the file of one end of a pair, or the connection made
\* from the local end.
File(k, e) == [kind |-> "file", pair |-> k, end |-> e]
Conn(k) == [kind |-> "conn", pair |-> k, end |-> 0]

\* The endpoints open when the first n steps have succeeded: createSocketPair
\* opens both files of a pair; fileToConn makes a connection from the local
\* file and closes that file.
OpenAfter(n) ==
    {File(k, 1) : k \in {j \in Pairs : j <= n}}
      \cup {File(k, 0) : k \in {j \in Pairs : j <= n /\ FirstConn + j - 1 > n}}
      \cup {Conn(k) : k \in {j \in Pairs : FirstConn + j - 1 <= n}}

\* The endpoints still open when step m has failed and NewWorker returns the
\* error: what the steps before m opened, less the file a failed fileToConn
\* has closed all the same; nothing is closed on the way out.
OpenAtFailure(m) ==
    OpenAfter(m - 1) \ (IF IsConnStep(m) THEN {File(m - FirstConn + 1, 0)} ELSE {})

\* NewWorker either fails before the child runs (a socket pair, a connection,
\* a pipe or child.Start fails) and returns the error, or starts the child,
\* builds the Worker, registers the one-shot listener under the pid, starts
\* the goroutine that calls child.Wait, and returns the Worker.
\* failAt: the step that fails, 0 when none does.
NewWorkerWaiter == "waiting"

NewWorker(failAt) ==
    /\ unit = "Worker"
    /\ newWorker = "pending"
    /\ IF failAt = 0
         THEN /\ newWorker' = "ok"
              /\ proc' = "started"
              /\ w_child' = "cmd"
              /\ onceListener' = TRUE
              /\ waiter' = NewWorkerWaiter
              /\ sockets' = OpenAfter(Len(NewWorkerSteps))
         ELSE /\ newWorker' = "error"
              /\ sockets' = OpenAtFailure(failAt)
              /\ UNCHANGED <<proc, w_child, onceListener, waiter>>
    /\ UNCHANGED <<w_closed, w_spawnDone, w_routers, exitCode, running,
                   channelClosed, routerClosed, workerRouters, nextRouter, wpc,
                   wloc, wlog, wops, waits, concurrent, oside>>

\* ----------------------------------------------------------- the child process
\* The process exits: wrong settings, a crash, a signal. child.Wait() returns
\* in the goroutine NewWorker started, which ends.
ProcessExit(code) ==
    /\ unit = "Worker"
    /\ proc = "started"
    /\ proc' = "exited"
    /\ exitCode' = code
    /\ workerRouters' = {}
    /\ waiter' = IF waiter = "waiting" THEN "done" ELSE waiter
    /\ UNCHANGED <<w_child, w_closed, w_spawnDone, w_routers, newWorker, running,
                   onceListener, channelClosed, routerClosed, nextRouter,
                   wpc, wloc, wlog, wops, waits, concurrent, cside>>

\* --------------------------------------------- the channel.Once listener
\* The worker process announces itself with the notification "running"; the
\* channel hands it to the one-shot listener, which is removed; the handler
\* reads spawnDone.
RunningDispatch ==
    /\ unit = "Worker"
    /\ proc = "started"
    /\ running = "no"
    /\ onceListener
    /\ ~channelClosed
    /\ onceListener' = FALSE
    /\ running' = IF ~w_spawnDone THEN "handling" ELSE "done"
    /\ UNCHANGED <<w_child, w_closed, w_spawnDone, w_routers, newWorker, proc,
                   exitCode, waiter, channelClosed, routerClosed, workerRouters,
                   nextRouter, wpc, wloc, wlog, wops, waits, concurrent, cside>>

RunningHandle ==
    /\ unit = "Worker"
    /\ running = "handling"
    /\ w_spawnDone' = TRUE
    /\ wlog' = Append(wlog, W("@success"))
    /\ running' = "done"
    /\ UNCHANGED <<w_child, w_closed, w_routers, newWorker, proc, exitCode,
                   onceListener, waiter, channelClosed, routerClosed,
                   workerRouters, nextRouter, wpc, wloc, wops, waits, concurrent, cside>>

\* ---------------------------------------------------------------- Worker.Close
\* A Close that does not look at the closed flag.
WorkerNeverClosed == FALSE

\* Worker.Closed()
WorkerClosed == w_closed

\* Close returns at once when the closed flag is set.
WorkerClose(t) ==
    /\ WStart(t)
    /\ IF WorkerClosed THEN UNCHANGED wpc ELSE WGoto(t, "close_set")
    /\ UNCHANGED <<w_child, w_closed, w_spawnDone, w_routers, newWorker, proc,
                   exitCode, running, onceListener, waiter, channelClosed,
                   routerClosed, workerRouters, nextRouter, wloc, wlog, waits, cside>>

WorkerCloseSet(t) ==
    /\ WAt(t, "close_set")
    /\ w_closed' = TRUE
    /\ WGoto(t, "close_kill")
    /\ UNCHANGED <<w_child, w_spawnDone, w_routers, newWorker, proc, exitCode,
                   running, onceListener, waiter, channelClosed, routerClosed,
                   workerRouters, nextRouter, wloc, wlog, wops, waits, concurrent, cside>>

\* SIGTERM to the child if there is one, then both channels are closed.
WorkerCloseKill(t) ==
    /\ WAt(t, "close_kill")
    /\ w_child' = "nil"
    /\ channelClosed' = TRUE
    /\ wlog' = wlog \o (IF w_child # "nil" THEN <<W("SIGTERM")>> ELSE <<>>)
                    \o <<W("channel.Close"), W("payloadChannel.Close")>>
    /\ WGoto(t, "close_range")
    /\ UNCHANGED <<w_closed, w_spawnDone, w_routers, newWorker, proc, exitCode,
                   running, onceListener, waiter, routerClosed, workerRouters,
                   nextRouter, wloc, wops, waits, concurrent, cside>>

\* The calls of router.workerClosed() that one Range over the map makes.
RECURSIVE Cascade(_)
Cascade(rs) ==
    IF rs = {} THEN <<>>
    ELSE LET r == CHOOSE x \in rs : \A y \in rs : x <= y
         IN  <<[ev |-> "workerClosed", r |-> r]>> \o Cascade(rs \ {r})

WorkerCloseRange(t) ==
    /\ WAt(t, "close_range")
    /\ wlog' = wlog \o Cascade(w_routers)
    /\ routerClosed' = [r \in DOMAIN routerClosed |->
                           routerClosed[r] \/ r \in w_routers]
    /\ WGoto(t, "close_reset")
    /\ UNCHANGED <<w_child, w_closed, w_spawnDone, w_routers, newWorker, proc,
                   exitCode, running, onceListener, waiter, channelClosed,
                   workerRouters, nextRouter, wloc, wops, waits, concurrent, cside>>

\* The map is replaced by an empty one and the observer's "close" is emitted.
\* A Close made by wait() goes on there.
WorkerCloseReset(t) ==
    /\ WAt(t, "close_reset")
    /\ w_routers' = {}
    /\ wlog' = Append(wlog, W("obs:close"))
    /\ WGoto(t, IF wloc[t].inWait THEN "wait_emit" ELSE "idle")
    /\ UNCHANGED <<w_child, w_closed, w_spawnDone, newWorker, proc, exitCode,
                   running, onceListener, waiter, channelClosed, routerClosed,
                   workerRouters, nextRouter, wloc, wops, waits, concurrent, cside>>

\* ---------------------------------------------------------------- Worker.wait
\* wait() blocks in child.Wait(); with no child it dereferences nil.
WaitCall(t) ==
    /\ WStart(t)
    /\ waits < MaxWaits
    /\ waits' = waits + 1
    /\ IF w_child = "nil"
         THEN WGoto(t, "panicked") /\ UNCHANGED wloc
         ELSE /\ WGoto(t, "wait_child")
              /\ wloc' = [wloc EXCEPT ![t].inWait = TRUE]
    /\ UNCHANGED <<w_child, w_closed, w_spawnDone, w_routers, newWorker, proc,
                   exitCode, running, onceListener, waiter, channelClosed,
                   routerClosed, workerRouters, nextRouter, wlog, cside>>

\* What child.Wait() gives wait() once the process has exited: the exit
\* status or, because NewWorker's goroutine waits on the same child, an error
\* that is no ExitError, which leaves code at 0.
WaitCodes == {0, exitCode}

\* child.Wait() has returned: w.child = nil, then w.Close().
WaitReturn(t, code) ==
    /\ WAt(t, "wait_child")
    /\ proc = "exited"
    /\ code \in WaitCodes
    /\ w_child' = "nil"
    /\ wloc' = [wloc EXCEPT ![t].code = code]
    /\ WGoto(t, IF WorkerClosed THEN "wait_emit" ELSE "close_set")
    /\ UNCHANGED <<w_closed, w_spawnDone, w_routers, newWorker, proc, exitCode,
                   running, onceListener, waiter, channelClosed, routerClosed,
                   workerRouters, nextRouter, wlog, wops, waits, concurrent, cside>>

\* The event wait() emits after its Close.
WaitEvent(code) ==
    IF ~w_spawnDone
      THEN IF code = WrongSettingsCode THEN "@failure:TypeError" ELSE "@failure:Error"
      ELSE "died"

WaitEmit(t) ==
    /\ WAt(t, "wait_emit")
    /\ w_spawnDone' = TRUE
    /\ wlog' = Append(wlog, W(WaitEvent(wloc[t].code)))
    /\ wloc' = [wloc EXCEPT ![t] = NoLocals]
    /\ WGoto(t, "idle")
    /\ UNCHANGED <<w_child, w_closed, w_routers, newWorker, proc, exitCode,
                   running, onceListener, waiter, channelClosed, routerClosed,
                   workerRouters, nextRouter, wops, waits, concurrent, cside>>

\* -------------------------------------------------------- Worker.CreateRouter
\* The answer to a request on the Worker's channel: a closed channel fails
\* every request with InvalidStateError, a dead process never answers.
ChannelResponse ==
    IF channelClosed THEN {"InvalidStateError"}
    ELSE IF proc = "exited" THEN {"TimeoutError"}
    ELSE {"ok", "Error"}

\* A fresh routerId; "worker.createRouter" is sent and the caller waits.
\* codecsOk: whether options.MediaCodecs are all supported.
CreateRouter(t, codecsOk) ==
    /\ WStart(t)
    /\ nextRouter < MaxRouters
    /\ nextRouter' = nextRouter + 1
    /\ wloc' = [wloc EXCEPT ![t].rid = nextRouter + 1, ![t].codecsOk = codecsOk,
                            ![t].closedAtCall = w_closed \/ proc = "exited"]
    /\ WGoto(t, "create_wait")
    /\ UNCHANGED <<w_child, w_closed, w_spawnDone, w_routers, newWorker, proc,
                   exitCode, running, onceListener, waiter, channelClosed,
                   routerClosed, workerRouters, wlog, waits, cside>>

\* Whether generateRouterRtpCapabilities accepts the media codecs.
CapabilitiesOk(codecsOk) == codecsOk

\* The response: an error is returned; else the worker has the router, and
\* generateRouterRtpCapabilities either rejects the codecs, which is returned,
\* or gives the capabilities of the Router to build.
CreateRouterResponse(t, rsp) ==
    /\ WAt(t, "create_wait")
    /\ rsp \in ChannelResponse
    /\ IF rsp # "ok"
         THEN /\ wloc' = [wloc EXCEPT ![t].err = rsp]
              /\ WGoto(t, "create_return")
              /\ UNCHANGED workerRouters
         ELSE /\ workerRouters' = workerRouters \cup {wloc[t].rid}
              /\ IF CapabilitiesOk(wloc[t].codecsOk)
                   THEN /\ WGoto(t, "create_store")
                        /\ UNCHANGED wloc
                   ELSE /\ wloc' = [wloc EXCEPT ![t].err = "UnsupportedError"]
                        /\ WGoto(t, "create_return")
    /\ UNCHANGED <<w_child, w_closed, w_spawnDone, w_routers, newWorker, proc,
                   exitCode, running, onceListener, waiter, channelClosed,
                   routerClosed, nextRouter, wlog, wops, waits, concurrent, cside>>

\* newRouter, routers.Store, the "@close" listener, observer "newrouter".
CreateRouterStore(t) ==
    /\ WAt(t, "create_store")
    /\ routerClosed' = [r \in DOMAIN routerClosed \cup {wloc[t].rid} |->
                           IF r = wloc[t].rid THEN FALSE ELSE routerClosed[r]]
    /\ w_routers' = w_routers \cup {wloc[t].rid}
    /\ wlog' = Append(wlog, [ev |-> "obs:newrouter", r |-> wloc[t].rid])
    /\ wloc' = [wloc EXCEPT ![t].err = "ok"]
    /\ WGoto(t, "create_return")
    /\ UNCHANGED <<w_child, w_closed, w_spawnDone, newWorker, proc, exitCode,
                   running, onceListener, waiter, channelClosed, workerRouters,
                   nextRouter, wops, waits, concurrent, cside>>

\* CreateRouter returns (router, err) to its caller.
CreateRouterReturn(t) ==
    /\ WAt(t, "create_return")
    /\ wloc' = [wloc EXCEPT ![t] = NoLocals]
    /\ WGoto(t, "idle")
    /\ UNCHANGED <<w_child, w_closed, w_spawnDone, w_routers, newWorker, proc,
                   exitCode, running, onceListener, waiter, channelClosed,
                   routerClosed, workerRouters, nextRouter, wlog, wops, waits, concurrent, cside>>

\* A "@close" listener that forgets to delete the router's entry.
RouterCloseKeepsEntry(r) ==
    /\ unit = "Worker"
    /\ wops < MaxWorkerOps
    /\ wops' = wops + 1
    /\ r \in DOMAIN routerClosed
    /\ ~routerClosed[r]
    /\ routerClosed' = [routerClosed EXCEPT ![r] = TRUE]
    /\ workerRouters' = workerRouters \ {r}
    /\ wlog' = Append(wlog, [ev |-> "@close", r |-> r])
    /\ UNCHANGED <<w_child, w_closed, w_spawnDone, w_routers, newWorker, proc,
                   exitCode, running, onceListener, waiter, channelClosed,
                   nextRouter, wpc, wloc, waits, concurrent, cside>>

\* router.Close() by its user: the Router closes and emits "@close", and the
\* listener CreateRouter registered deletes its entry from the map.
RouterClose(r) ==
    /\ unit = "Worker"
    /\ wops < MaxWorkerOps
    /\ wops' = wops + 1
    /\ r \in DOMAIN routerClosed
    /\ ~routerClosed[r]
    /\ routerClosed' = [routerClosed EXCEPT ![r] = TRUE]
    /\ w_routers' = w_routers \ {r}
    /\ workerRouters' = workerRouters \ {r}
    /\ wlog' = Append(wlog, [ev |-> "@close", r |-> r])
    /\ UNCHANGED <<w_child, w_closed, w_spawnDone, newWorker, proc, exitCode,
                   running, onceListener, waiter, channelClosed, nextRouter,
                   wpc, wloc, waits, concurrent, cside>>

\* ------------------------------------------------------------------ the Worker
WorkerNext ==
    \/ \E failAt \in 0..Len(NewWorkerSteps) : NewWorker(failAt)
    \/ \E code \in ExitCodes : ProcessExit(code)
    \/ RunningDispatch
    \/ RunningHandle
    \/ \E r \in RouterIds : RouterClose(r)
    \/ \E t \in Threads :
        \/ WorkerClose(t) \/ WorkerCloseSet(t) \/ WorkerCloseKill(t)
        \/ WorkerCloseRange(t) \/ WorkerCloseReset(t)
        \/ WaitCall(t) \/ (\E code \in ExitCodes \cup {0} : WaitReturn(t, code)) \/ WaitEmit(t)
        \/ (\E ok \in BOOLEAN : CreateRouter(t, ok))
        \/ (\E rsp \in {"ok", "Error", "TimeoutError", "InvalidStateError"} :
                CreateRouterResponse(t, rsp))
        \/ CreateRouterStore(t) \/ CreateRouterReturn(t)

SpecWorker == InitWorker /\ [][WorkerNext]_vars

\* What the program does by itself once started: the handler of a dispatched
\* notification and the rest of a call that is under way run to their end, a
\* request sent on the channel being answered or failed, child.Wait() returning
\* when the process has exited. Calls and the process's own events are the
\* environment's to make or not.
WorkerProgress ==
    \/ RunningHandle
    \/ \E t \in Threads :
        \/ WorkerCloseSet(t) \/ WorkerCloseKill(t)
        \/ WorkerCloseRange(t) \/ WorkerCloseReset(t)
        \/ (\E code \in ExitCodes \cup {0} : WaitReturn(t, code)) \/ WaitEmit(t)
        \/ (\E rsp \in {"ok", "Error", "TimeoutError", "InvalidStateError"} :
                CreateRouterResponse(t, rsp))
        \/ CreateRouterStore(t) \/ CreateRouterReturn(t)

SpecWorkerLive == SpecWorker /\ WF_vars(WorkerProgress)

\* ============================================================ PipeTransport
\* A run of the PipeTransport unit starts from a transport on which nothing
\* was consumed yet; the Consumer and Worker sides stay as constructed.
InitTransport ==
    /\ unit = "Transport"
    /\ closed = 0
    /\ params = [paused |-> FALSE, producerPaused |-> FALSE]
    /\ paused = FALSE
    /\ producerPaused = FALSE
    /\ priority = 0
    /\ score = 10
    /\ preferredLayers = 0
    /\ currentLayers = 0
    /\ locker = NoThread
    /\ chanListener = TRUE
    /\ payListener = TRUE
    /\ workerHas = TRUE
    /\ pc = [t \in Threads |-> "idle"]
    /\ wasPaused = [t \in Threads |-> FALSE]
    /\ arg = [t \in Threads |-> 0]
    /\ call = [t \in Threads |-> NoCall]
    /\ ret = [t \in Threads |-> "none"]
    /\ log = <<>>
    /\ emitted = {}
    /\ writes = {}
    /\ nops = 0
    /\ NoWorker
    /\ consumers = {}
    /\ NoTransport
    /\ sctpState \in SctpStatesAtStart
    /\ NoCapabilities

\* One entry of the PipeTransport's log: what happened, for which consumer,
\* in which call of Consume (0: outside any).
T(ev, c, n) == [ev |-> ev, c |-> c, n |-> n]

TAt(t, label) == unit = "Transport" /\ tpc[t] = label
TGoto(t, label) == tpc' = [tpc EXCEPT ![t] = label]

\* A lookup that takes every id for a known producer.
AnyProducerFound(pid) == TRUE

\* transport.getProducerById(producerId) # nil: the injected lookup.
GetProducerById(pid) == pid \in KnownProducers

\* Consume: the producer is looked up; without one an error is returned, else
\* a fresh consumer id is drawn, "transport.consume" is sent and the caller
\* waits for the response.
Consume(t, pid) ==
    /\ TAt(t, "idle")
    /\ tops < MaxTransportOps
    /\ tops' = tops + 1
    /\ IF ~GetProducerById(pid)
         THEN /\ tloc' = [tloc EXCEPT ![t] =
                            [pid |-> pid, cid |-> 0, n |-> tops + 1, err |-> "Error"]]
              /\ TGoto(t, "consume_return")
              /\ UNCHANGED <<nextConsumer, tlog>>
         ELSE /\ nextConsumer < MaxConsumers
              /\ nextConsumer' = nextConsumer + 1
              /\ tloc' = [tloc EXCEPT ![t] =
                            [pid |-> pid, cid |-> nextConsumer + 1, n |-> tops + 1,
                             err |-> "none"]]
              /\ tlog' = Append(tlog, T("req:transport.consume", nextConsumer + 1, tops + 1))
              /\ TGoto(t, "consume_wait")
    /\ UNCHANGED <<consumers, consumerOpen, listeners, sctpState, t_closed, t_listener, tside>>

\* The response to "transport.consume": an error is returned, else the
\* Consumer is built from the status in it.
ConsumeResponse(t, rsp) ==
    /\ TAt(t, "consume_wait")
    /\ IF rsp # "ok"
         THEN /\ tloc' = [tloc EXCEPT ![t].err = rsp]
              /\ TGoto(t, "consume_return")
         ELSE /\ TGoto(t, "consume_new")
              /\ UNCHANGED tloc
    /\ UNCHANGED <<consumers, consumerOpen, nextConsumer, listeners, tlog, tops, sctpState, t_closed, t_listener, tside>>

\* newConsumer: the Consumer exists, open, and its handler of the worker's
\* notifications is registered on the channel.
ConsumeNew(t) ==
    /\ TAt(t, "consume_new")
    /\ consumerOpen' = [c \in DOMAIN consumerOpen \cup {tloc[t].cid} |->
                           IF c = tloc[t].cid THEN TRUE ELSE consumerOpen[c]]
    /\ TGoto(t, "consume_store")
    /\ UNCHANGED <<consumers, nextConsumer, listeners, tloc, tlog, tops, sctpState, t_closed, t_listener, tside>>

\* baseTransport.consumers.Store(consumer.Id(), consumer).
StoreConsumer(c) == consumers \cup {c}

ConsumeStore(t) ==
    /\ TAt(t, "consume_store")
    /\ consumers' = StoreConsumer(tloc[t].cid)
    /\ tlog' = Append(tlog, T("store", tloc[t].cid, tloc[t].n))
    /\ TGoto(t, "consume_on")
    /\ UNCHANGED <<consumerOpen, nextConsumer, listeners, tloc, tops, sctpState, t_closed, t_listener, tside>>

\* consumer.On("@close", ...) and then consumer.On("@producerclose", ...).
ConsumeOn(t) ==
    /\ TAt(t, "consume_on")
    /\ IF <<tloc[t].cid, "@close">> \notin listeners
         THEN /\ listeners' = listeners \cup {<<tloc[t].cid, "@close">>}
              /\ UNCHANGED tpc
         ELSE /\ listeners' = listeners \cup {<<tloc[t].cid, "@producerclose">>}
              /\ TGoto(t, "consume_emit")
    /\ UNCHANGED <<consumers, consumerOpen, nextConsumer, tloc, tlog, tops, sctpState, t_closed, t_listener, tside>>

\* transport.Observer().SafeEmit("newconsumer", consumer).
ConsumeEmit(t) ==
    /\ TAt(t, "consume_emit")
    /\ tlog' = Append(tlog, T("obs:newconsumer", tloc[t].cid, tloc[t].n))
    /\ tloc' = [tloc EXCEPT ![t].err = "ok"]
    /\ TGoto(t, "consume_return")
    /\ UNCHANGED <<consumers, consumerOpen, nextConsumer, listeners, tops, sctpState, t_closed, t_listener, tside>>

\* Consume returns (consumer, err) to its caller.
ConsumeReturn(t) ==
    /\ TAt(t, "consume_return")
    /\ tloc' = [tloc EXCEPT ![t] = NoConsume]
    /\ TGoto(t, "idle")
    /\ UNCHANGED <<consumers, consumerOpen, nextConsumer, listeners, tlog, tops, sctpState, t_closed, t_listener, tside>>

\* Who can make a consumer close: the worker's "producerclose" reaches the
\* handler newConsumer registered, as soon as the Consumer exists; Close() is
\* called by whoever holds the Consumer, which the observer's "newconsumer"
\* and Consume's return hand out.
HandedOut(c) == \E i \in DOMAIN tlog : tlog[i].ev = "obs:newconsumer" /\ tlog[i].c = c

CanClose(c, ev) ==
    /\ c \in DOMAIN consumerOpen
    /\ consumerOpen[c]
    /\ ev = "@close" => HandedOut(c)

\* A consumer of the transport closes by Close() or on "producerclose": it
\* emits "@close" or "@producerclose", and the listener Consume registered
\* for that event, if it is registered by then, deletes the entry.
ConsumerCloses(c, ev) ==
    /\ unit = "Transport"
    /\ tops < MaxTransportOps
    /\ tops' = tops + 1
    /\ CanClose(c, ev)
    /\ consumerOpen' = [consumerOpen EXCEPT ![c] = FALSE]
    /\ consumers' = IF <<c, ev>> \in listeners THEN DeleteConsumer(c) ELSE consumers
    /\ tlog' = Append(tlog, T(ev, c, 0))
    /\ UNCHANGED <<nextConsumer, listeners, tpc, tloc, sctpState, t_closed, t_listener, tside>>

\* ------------------------------------ PipeTransport.Close / routerClosed
\* The base transport's Close and routerClosed: the closed flag is set and the
\* listener under the transport's id is removed from the channel.
BaseClose(how) ==
    /\ t_closed' = TRUE
    /\ t_listener' = FALSE
    /\ tlog' = Append(tlog, T(how, 0, 0))

\* transport.Closed()
TransportClosedFlag == t_closed

\* Close() and routerClosed(): return at once on a closed transport.
\* how: "base.Close" for Close(), "base.routerClosed" for routerClosed().
PipeTransportClose(t, how) ==
    /\ TAt(t, "idle")
    /\ tops < MaxTransportOps
    /\ tops' = tops + 1
    /\ IF TransportClosedFlag
         THEN UNCHANGED tpc
         ELSE TGoto(t, IF how = "base.Close" THEN "close_sctp" ELSE "rclosed_sctp")
    /\ UNCHANGED <<consumers, consumerOpen, nextConsumer, listeners, sctpState,
                   t_closed, t_listener, tloc, tlog, tside>>

\* if len(sctpState) > 0 { sctpState = SctpState_Closed }
PipeTransportCloseSctp(t) ==
    /\ unit = "Transport"
    /\ tpc[t] \in {"close_sctp", "rclosed_sctp"}
    /\ sctpState' = IF sctpState # "" THEN SctpState_Closed ELSE sctpState
    /\ TGoto(t, IF tpc[t] = "close_sctp" THEN "close_base" ELSE "rclosed_base")
    /\ UNCHANGED <<consumers, consumerOpen, nextConsumer, listeners, t_closed,
                   t_listener, tloc, tlog, tops, tside>>

\* transport.ITransport.Close() or transport.ITransport.routerClosed().
PipeTransportCloseBase(t) ==
    /\ unit = "Transport"
    /\ tpc[t] \in {"close_base", "rclosed_base"}
    /\ BaseClose(IF tpc[t] = "close_base" THEN "base.Close" ELSE "base.routerClosed")
    /\ TGoto(t, "idle")
    /\ UNCHANGED <<consumers, consumerOpen, nextConsumer, listeners, sctpState,
                   tloc, tops, tside>>

\* The worker's "sctpstatechange" reaches the listener registered under the
\* transport's id: sctpState is set and the event is emitted on the transport
\* and on its observer. The worker sends it for a transport that uses SCTP.
SctpStateChange(st) ==
    /\ unit = "Transport"
    /\ tops < MaxTransportOps
    /\ tops' = tops + 1
    /\ t_listener
    /\ sctpState # ""
    /\ sctpState' = st
    /\ tlog' = tlog \o <<T("emit:sctpstatechange", 0, 0), T("obs:sctpstatechange", 0, 0)>>
    /\ UNCHANGED <<consumers, consumerOpen, nextConsumer, listeners, t_closed,
                   t_listener, tpc, tloc, tside>>

TransportNext ==
    \/ \E c \in ConsumerIds, ev \in {"@close", "@producerclose"} : ConsumerCloses(c, ev)
    \/ \E t \in Threads :
        \/ (\E pid \in ProducerIds : Consume(t, pid))
        \/ (\E rsp \in {"ok", "Error"} : ConsumeResponse(t, rsp))
        \/ ConsumeNew(t) \/ ConsumeStore(t) \/ ConsumeOn(t) \/ ConsumeEmit(t)
        \/ ConsumeReturn(t)
        \/ (\E how \in {"base.Close", "base.routerClosed"} : PipeTransportClose(t, how))
        \/ PipeTransportCloseSctp(t) \/ PipeTransportCloseBase(t)
    \/ \E st \in SctpStatesNotified : SctpStateChange(st)

SpecTransport == InitTransport /\ [][TransportNext]_vars

\* ======================================================== RTP capabilities
InitCapabilities ==
    /\ unit = "Capabilities"
    /\ closed = 0
    /\ params = [paused |-> FALSE, producerPaused |-> FALSE]
    /\ paused = FALSE
    /\ producerPaused = FALSE
    /\ priority = 0
    /\ score = 10
    /\ preferredLayers = 0
    /\ currentLayers = 0
    /\ locker = NoThread
    /\ chanListener = TRUE
    /\ payListener = TRUE
    /\ workerHas = TRUE
    /\ pc = [t \in Threads |-> "idle"]
    /\ wasPaused = [t \in Threads |-> FALSE]
    /\ arg = [t \in Threads |-> 0]
    /\ call = [t \in Threads |-> NoCall]
    /\ ret = [t \in Threads |-> "none"]
    /\ log = <<>>
    /\ emitted = {}
    /\ writes = {}
    /\ nops = 0
    /\ NoWorker
    /\ consumers = {}
    /\ NoTransport
    /\ sctpState = ""
    /\ NoCapabilities

\* copier.Copy(&to, &from) on two structs of one type, without the DeepCopy
\* option: every field of to is set to the field of from; a slice field is
\* set to the same slice, which refers to the same backing array.
CopierCopy(from) == [f \in DOMAIN from |-> from[f]]

\* What a capabilities value shows to who reads it: the entries of its codec
\* list, the Parameters and RtcpFeedback its codecs refer to, its header
\* extensions.
Value(caps) ==
    [codecs           |-> heap[caps.Codecs].val,
     parameters       |-> heap[Loc("parameters", heap[caps.Codecs].refs)].val,
     rtcpFeedback     |-> heap[Loc("rtcpFeedback", heap[caps.Codecs].refs)].val,
     headerExtensions |-> heap[caps.HeaderExtensions].val]

\* The memory cell a caller writes when it changes the given part of a value:
\* caps.Codecs[i].MimeType = .., caps.Codecs[i].Parameters.Apt = ..,
\* caps.Codecs[i].RtcpFeedback[j].Type = .., caps.HeaderExtensions[i].Uri = ..
CellOf(caps, part) ==
    CASE part = "codecs"           -> caps.Codecs
      [] part = "parameters"       -> Loc("parameters", heap[caps.Codecs].refs)
      [] part = "rtcpFeedback"     -> Loc("rtcpFeedback", heap[caps.Codecs].refs)
      [] part = "headerExtensions" -> caps.HeaderExtensions

GetSupportedRtpCapabilities(i) ==
    /\ unit = "Capabilities"
    /\ gops < MaxCapsOps
    /\ gops' = gops + 1
    /\ i \notin DOMAIN returned
    /\ returned' = [c \in DOMAIN returned \cup {i} |->
                       IF c = i THEN CopierCopy(supportedRtpCapabilities)
                                ELSE returned[c]]
    /\ UNCHANGED <<heap, modifiedBy, gside>>

\* A caller assigns to an element of a list of its value, or through a
\* codec's Parameters pointer.
ModifyElement(i, part) ==
    /\ unit = "Capabilities"
    /\ gops < MaxCapsOps
    /\ gops' = gops + 1
    /\ i \in DOMAIN returned
    /\ heap' = [heap EXCEPT ![CellOf(returned[i], part)].val = "modified"]
    /\ modifiedBy' = modifiedBy \cup {i}
    /\ UNCHANGED <<returned, gside>>

\* caps.Codecs = append(caps.Codecs, codec): the table's slice is full, so
\* append allocates a new array for the caller and copies the elements, which
\* keep referring to the same Parameters and RtcpFeedback.
AppendCodec(i) ==
    /\ unit = "Capabilities"
    /\ gops < MaxCapsOps
    /\ gops' = gops + 1
    /\ i \in DOMAIN returned
    /\ returned[i].Codecs.owner = 0
    /\ heap' = [heap EXCEPT ![Loc("codecs", i)] =
                   [val |-> "modified", refs |-> heap[returned[i].Codecs].refs]]
    /\ returned' = [returned EXCEPT ![i].Codecs = Loc("codecs", i)]
    /\ modifiedBy' = modifiedBy \cup {i}
    /\ UNCHANGED gside

CapabilitiesNext ==
    \E i \in Callers :
        \/ GetSupportedRtpCapabilities(i)
        \/ (\E part \in Cells : ModifyElement(i, part))
        \/ AppendCodec(i)

SpecCapabilities == InitCapabilities /\ [][CapabilitiesNext]_vars

\* ----------------------------------------------------------------- the whole
Init == InitConsumer \/ InitWorker \/ InitTransport \/ InitCapabilities
Next == ConsumerNext \/ WorkerNext \/ TransportNext \/ CapabilitiesNext
Spec == Init /\ [][Next]_vars

\* ===================================================================== claims
\* How often the Consumer's log holds an entry of kind k for event ev.
N(k, ev) == Cardinality({i \in DOMAIN log : log[i].k = k /\ log[i].ev = ev})

\* How often the Worker's log holds the event ev (for router r, or 0).
WN(ev, r) == Cardinality({i \in DOMAIN wlog : wlog[i].ev = ev /\ wlog[i].r = r})

\* The observer's "pause" and "resume" events, in the order emitted.
IsPauseResume(e) == e.k = "obs" /\ e.ev \in {"pause", "resume"}
ObsPauseResume == SelectSeq(log, IsPauseResume)

Effective == paused \/ producerPaused

ClosingLabels == {"close_remove", "close_wait", "tc_remove", "pc_emit"}
Closing(t) == pc[t] \in ClosingLabels

\* C1: under any interleaving of Close, transportClosed and "producerclose",
\* at most one invocation is ever inside the close transition; the observer's
\* "close" and the path's own event ("@close", "transportclose", or
\* "@producerclose" with "producerclose") are emitted at most once, by one path
\* only, and exactly once when the transition is complete; an open Consumer
\* has emitted none of them.
C1_CloseExactlyOnce ==
    LET paths == N("emit", "@close") + N("emit", "transportclose")
                   + N("emit", "@producerclose")
    IN  /\ Cardinality({t \in Threads : Closing(t)}) <= 1
        /\ N("obs", "close") <= 1
        /\ paths <= 1
        /\ N("emit", "producerclose") = N("emit", "@producerclose")
        /\ N("obs", "close") = paths
        /\ (closed = 0 => paths = 0 /\ ~\E t \in Threads : Closing(t))
        /\ (closed = 1 /\ ~(\E t \in Threads : Closing(t)) => paths = 1)

\* A Close has won the CAS and waits for the worker while a "producerclose"
\* handler, dispatched before the listeners were removed, is about to try it.
C1_Witness ==
    \E t, u \in Threads :
        /\ pc[t] = "close_wait" /\ call[t].op = "Close"
        /\ pc[u] = "pc_cas" /\ call[u].op = "producerclose"

\* C2: the closed flag of the Consumer and that of the Worker never go back
\* from set to clear, whatever step is taken.
C2_ClosedMonotonic ==
    [][(closed > 0 => closed' > 0) /\ (w_closed => w_closed')]_vars

\* A call runs on a Consumer that was closed when it began, or a call on the
\* Worker began after the Worker was closed.
C2_Witness ==
    \/ unit = "Consumer" /\ Closed
         /\ \E t \in Threads : call[t].closedAtCall /\ pc[t] = "pause_wait"
    \/ unit = "Worker" /\ w_closed
         /\ \E t \in Threads : wloc[t].closedAtCall /\ wpc[t] = "create_wait"

\* The calls C3 is about.
GuardedOps == {"Pause", "Resume", "SetPreferredLayers", "SetPriority",
               "UnsetPriority"} \cup RequestOps

\* C3: a call of Pause, Resume, SetPreferredLayers, SetPriority, UnsetPriority,
\* RequestKeyFrame, EnableTraceEvent, Dump or GetStats that begins on a closed
\* Consumer returns InvalidStateError, and leaves paused, priority,
\* preferredLayers and the observer's "pause"/"resume" events as they were.
C3_ClosedCallsFail ==
    [][\A t \in Threads :
          (call[t].op \in GuardedOps /\ call[t].closedAtCall
             /\ pc[t] # "idle" /\ pc'[t] = "idle")
          => /\ ret'[t] = "InvalidStateError"
             /\ paused' = paused
             /\ priority' = priority
             /\ preferredLayers' = preferredLayers
             /\ ObsPauseResume' = ObsPauseResume]_vars

\* C4: the observer's "pause"/"resume" events strictly alternate, the first is
\* the one that leaves the effective value the Consumer was built with, and
\* the last one emitted always names the current effective value (paused or
\* producerPaused): an event for every change of it, and none without.
C4_PauseResumeOnTransitions ==
    LET evs == ObsPauseResume
        initial == params.paused \/ params.producerPaused
    IN  /\ \A i \in 1..(Len(evs) - 1) : evs[i].ev # evs[i + 1].ev
        /\ Len(evs) > 0 => evs[1].ev = (IF initial THEN "resume" ELSE "pause")
        /\ Effective = IF Len(evs) = 0 THEN initial ELSE evs[Len(evs)].ev = "pause"

\* The effective value has gone up and down again, by a producer pause among
\* the steps.
C4_Witness ==
    /\ Len(ObsPauseResume) >= 2
    /\ N("emit", "producerpause") >= 1
    /\ \E t \in Threads : ret[t] = "ok"

\* C5: no event is emitted by a thread that holds consumer.locker.
C5_NoEmitUnderLock ==
    \A i \in DOMAIN log : log[i].k \in {"emit", "obs"} => ~log[i].locked

\* C6: every write of paused, producerPaused, priority, score, preferredLayers
\* and currentLayers is made by a thread that holds consumer.locker.
C6_WritesUnderLock ==
    \A w \in writes : w.locked

\* C7: whenever the worker process of a Worker that NewWorker returned has
\* exited, eventually the Worker has emitted exactly one of "died" and
\* "@failure" and every router it built is closed.
C7_ExitIsReported ==
    (newWorker = "ok" /\ proc = "exited") ~>
        /\ WN("died", 0) + WN("@failure:TypeError", 0) + WN("@failure:Error", 0) = 1
        /\ \A r \in DOMAIN routerClosed : routerClosed[r]

\* C8: NewWorker has returned a Worker only if "running" has arrived and
\* "@success" was emitted; when the process has exited without it, NewWorker
\* has not returned a Worker.
C8_NewWorkerAwaitsRunning ==
    /\ newWorker = "ok" => WN("@success", 0) >= 1
    /\ (proc = "exited" /\ running = "no") => newWorker # "ok"

\* A thread is inside Worker.Close.
InClose(t) == wpc[t] \in {"close_set", "close_kill", "close_range", "close_reset"}

\* C9: while the calls on the Worker follow one another, any number of Close
\* calls send SIGTERM at most once, close each channel at most once, call
\* workerClosed at most once per router and emit the observer's "close" at
\* most once; when a Close has run to its end each channel was closed exactly
\* once, "close" was emitted exactly once, the map is empty, and every router
\* built was closed exactly once, by workerClosed or by its own Close.
C9_CloseIdempotent ==
    ~concurrent =>
        /\ WN("SIGTERM", 0) <= 1
        /\ WN("channel.Close", 0) <= 1
        /\ WN("payloadChannel.Close", 0) <= 1
        /\ WN("obs:close", 0) <= 1
        /\ \A r \in RouterIds : WN("workerClosed", r) <= 1
        /\ (w_closed /\ ~(\E t \in Threads : InClose(t)))
             => /\ WN("channel.Close", 0) = 1
                /\ WN("payloadChannel.Close", 0) = 1
                /\ WN("obs:close", 0) = 1
                /\ (waits = 0 => WN("SIGTERM", 0) = 1)
                /\ w_routers = {}
                /\ \A r \in DOMAIN routerClosed :
                       /\ routerClosed[r]
                       /\ WN("workerClosed", r) + WN("@close", r) = 1

\* A router was built, then Close was called twice, one call after the other:
\* the three calls the bound allows were CreateRouter, Close and Close.
C9_Witness ==
    /\ ~concurrent
    /\ w_closed
    /\ wops >= 3
    /\ waits = 0
    /\ \A t \in Threads : wpc[t] = "idle"
    /\ \E r \in RouterIds : WN("obs:newrouter", r) = 1 /\ WN("workerClosed", r) = 1
    /\ \A r \in RouterIds : WN("@close", r) = 0
    /\ nextRouter = 1

\* C10: however calls of Close overlap, the observer's "close" is emitted at
\* most once and workerClosed is called at most once per router.
C10_CloseOnceConcurrently ==
    /\ WN("obs:close", 0) <= 1
    /\ \A r \in RouterIds : WN("workerClosed", r) <= 1

\* The routers announced by "newrouter" before position i of the Worker's log
\* on which, before i, neither workerClosed was called nor "@close" emitted.
OpenBefore(i) ==
    {r \in RouterIds :
        /\ \E j \in 1..(i - 1) : wlog[j].ev = "obs:newrouter" /\ wlog[j].r = r
        /\ ~\E k \in 1..(i - 1) :
               wlog[k].r = r /\ wlog[k].ev \in {"workerClosed", "@close"}}

\* C11: when the Worker's observer emits "close", and when the Worker emits
\* "died", workerClosed has already been called on every router the Worker
\* had: no router announced before the event is still open at the event.
C11_DescendantsFirst ==
    \A i \in DOMAIN wlog :
        wlog[i].ev \in {"obs:close", "died"} => OpenBefore(i) = {}

\* C12: a CreateRouter that began when the Worker was closed or its process
\* had exited returns InvalidStateError, has stored no router in the map and
\* has emitted no "newrouter".
C12_CreateRouterOnClosedFails ==
    \A t \in Threads :
        (wpc[t] = "create_return" /\ wloc[t].closedAtCall)
        => /\ wloc[t].err = "InvalidStateError"
           /\ wloc[t].rid \notin w_routers
           /\ WN("obs:newrouter", wloc[t].rid) = 0

\* The routers a successful CreateRouter announced that have not emitted
\* "@close".
LiveRouters ==
    {r \in RouterIds : WN("obs:newrouter", r) >= 1 /\ WN("@close", r) = 0}

\* What C13 says of each CreateRouter: a router is announced at most once, and
\* a CreateRouter that returns an error has stored and announced nothing.
CreateRouterStoresOnSuccess ==
    /\ \A r \in RouterIds : WN("obs:newrouter", r) <= 1
    /\ \A t \in Threads :
           (wpc[t] = "create_return" /\ wloc[t].err # "ok")
           => wloc[t].rid \notin w_routers /\ WN("obs:newrouter", wloc[t].rid) = 0

\* C13 as stated: the routers map holds exactly the routers that a successful
\* CreateRouter announced and that have not emitted "@close".
C13_MapIsLiveRouters ==
    /\ w_routers = LiveRouters
    /\ CreateRouterStoresOnSuccess

\* C13 amended: the map never holds anything but those routers, and holds all
\* of them as long as the Worker has not been closed.
C13_MapIsLiveRoutersUntilClose ==
    /\ w_routers \subseteq LiveRouters
    /\ (~w_closed => w_routers = LiveRouters)
    /\ CreateRouterStoresOnSuccess

\* Two routers were created on an open Worker and one of them has emitted
\* "@close": the map holds the other one only.
C13_Witness ==
    /\ ~w_closed
    /\ \E r, q \in RouterIds :
           /\ r # q
           /\ WN("@close", r) = 1
           /\ WN("obs:newrouter", q) = 1
           /\ w_routers = {q}

\* The positions of the Consumer's log that hold the event ev of kind k.
Pos(k, ev) == {i \in DOMAIN log : log[i].k = k /\ log[i].ev = ev}

\* What C14 says of every state: "@producerclose" is emitted at most once,
\* by a Consumer that is closed, is followed by "producerclose" and that by
\* the observer's "close", and the owning transport's map has lost the
\* consumer; a Consumer that is closed by no other path and has nobody inside
\* a close has emitted it.
ProducerCloseEmitted ==
    /\ N("emit", "@producerclose") <= 1
    /\ \A i \in Pos("emit", "@producerclose") :
           /\ closed = 1
           /\ ThisConsumer \notin consumers
           /\ \E j \in Pos("emit", "producerclose") :
                  /\ i < j
                  /\ \E k \in Pos("obs", "close") : j < k
    /\ N("emit", "producerclose") = N("emit", "@producerclose")
    /\ (closed = 1 /\ N("emit", "@close") = 0 /\ N("emit", "transportclose") = 0
          /\ ~\E t \in Threads : Closing(t))
         => N("emit", "@producerclose") = 1

\* C14: a "producerclose" that finds the Consumer open closes it and emits
\* "@producerclose", "producerclose" and the observer's "close" in this order,
\* and the "@producerclose" removes the consumer from the owning transport's
\* map; the handler of a "producerclose" that finds the Consumer closed ends
\* with nothing emitted and nothing changed.
C14_ProducerCloseInOrder ==
    [][/\ ProducerCloseEmitted'
       /\ \A t \in Threads :
              (pc[t] = "pc_cas" /\ closed # 0 /\ pc'[t] # "pc_cas")
              => log' = log /\ consumers' = consumers /\ closed' = closed]_vars

\* "@producerclose", "producerclose" and the observer's "close" were emitted,
\* the map has lost the consumer, and a second "producerclose" handler,
\* dispatched before the listener was removed, is about to find the Consumer
\* closed.
C14_Witness ==
    /\ N("emit", "@producerclose") = 1
    /\ consumers = {}
    /\ Len(log) = 3
    /\ log[3] = [k |-> "obs", ev |-> "close", locked |-> FALSE]
    /\ \E t \in Threads : pc[t] = "pc_cas" /\ call[t].op = "producerclose"

\* What a step has added to the Consumer's log: kinds and events, in order.
Added ==
    [i \in 1..(Len(log') - Len(log)) |->
        <<log'[Len(log) + i].k, log'[Len(log) + i].ev>>]

\* C15: transportClosed returns nothing to its caller and sends no request;
\* on an open Consumer it sets closed and emits "transportclose" and then the
\* observer's "close", once each, and no "@close"; on a closed Consumer it
\* changes nothing and emits nothing.
C15_TransportClosedIsSilent ==
    [][/\ N("emit", "transportclose")' <= 1
       /\ \A t \in Threads :
            /\ (TransportClosed(t) /\ closed # 0)
                 => UNCHANGED <<closed, log, pc, ret, chanListener, payListener,
                                consumers, paused, producerPaused>>
            /\ (TransportClosed(t) /\ closed = 0)
                 => closed' = 1 /\ log' = log /\ ret' = ret
            /\ (pc[t] = "tc_remove" /\ pc'[t] # "tc_remove")
                 => /\ closed = 1 /\ closed' = 1
                    /\ ret' = ret
                    /\ Added = <<(<<"emit", "transportclose">>), (<<"obs", "close">>)>>]_vars

\* transportClosed has closed the Consumer and emitted its two events, and a
\* later call found the Consumer closed.
C15_Witness ==
    /\ closed = 1
    /\ Len(log) = 2
    /\ log[1].ev = "transportclose" /\ log[2].ev = "close"
    /\ ~chanListener /\ ~payListener
    /\ nops >= 2
    /\ \A t \in Threads : pc[t] = "idle" /\ ret[t] = "none"

\* C16: a call of Pause, Resume, SetPriority or another request of the
\* Consumer that began on the open Consumer and is still waiting for the
\* worker when the Consumer is closed returns InvalidStateError, and leaves
\* paused and the observer's "pause"/"resume" events as they were.
C16_CloseCancelsPending ==
    [][\A t \in Threads :
          (call[t].op \in GuardedOps /\ ~call[t].closedAtCall /\ closed # 0
             /\ pc[t] # "idle" /\ pc'[t] = "idle")
          => /\ ret'[t] = "InvalidStateError"
             /\ paused' = paused
             /\ ObsPauseResume' = ObsPauseResume]_vars

\* C17: a "producerpause" or "producerresume" handler that has been
\* dispatched while a Pause or Resume of the Consumer waits for the worker's
\* response is not kept waiting by that call: the lock the handler needs is
\* not held by the waiting caller.
C17_HandlerNeverWaitsForRequest ==
    \A t, u \in Threads :
        (pc[t] \in {"pp_lock", "pr_lock"} /\ pc[u] \in {"pause_wait", "resume_wait"})
        => locker # u

\* The value of the built-in table as the package defines it.
BuiltinValue ==
    [codecs |-> "builtin", parameters |-> "builtin", rtcpFeedback |-> "builtin",
     headerExtensions |-> "builtin"]

\* C18: whatever callers do with the values they were given, the built-in
\* table keeps its value, and so does the value of every caller that has
\* changed nothing itself.
C18_ReturnsDeepCopy ==
    /\ Value(supportedRtpCapabilities) = BuiltinValue
    /\ \A i \in DOMAIN returned :
           i \notin modifiedBy => Value(returned[i]) = BuiltinValue

\* C19: when NewWorker has returned an error, every socket endpoint it had
\* opened is closed and there is no Worker.
C19_NoSocketLeftOnFailure ==
    newWorker = "error" =>
        /\ sockets = {}
        /\ w_child = "nil" /\ waiter = "none" /\ proc = "none"

\* C20: a call of Consume whose producer id the lookup does not know goes
\* straight to its error return: it sends no "transport.consume", draws no
\* consumer id, builds and stores no Consumer, emits no "newconsumer", and
\* leaves the consumers map as it was, from its first step to its return.
UnknownProducerCall(t) ==
    /\ tpc'[t] # tpc[t]
    /\ \/ tpc[t] = "idle" /\ tloc'[t].pid \in ProducerIds \ KnownProducers
       \/ tpc[t] # "idle" /\ tloc[t].pid \in ProducerIds \ KnownProducers

C20_ConsumeNeedsKnownProducer ==
    [][\A t \in Threads :
        UnknownProducerCall(t) =>
            /\ tpc[t] = "idle" =>
                 /\ tpc'[t] = "consume_return"
                 /\ tloc'[t].err = "Error"
                 /\ tloc'[t].cid = 0
            /\ tpc[t] # "idle" => tpc[t] = "consume_return" /\ tpc'[t] = "idle"
            /\ tlog' = tlog
            /\ consumers' = consumers
            /\ consumerOpen' = consumerOpen
            /\ nextConsumer' = nextConsumer]_vars

C20_Witness ==
    /\ unit = "Transport"
    /\ consumers # {}
    /\ \E t \in Threads :
        /\ tpc[t] = "consume_return"
        /\ tloc[t].pid \notin KnownProducers
        /\ tloc[t].err = "Error"

\* C21: the consumers map holds only consumers Consume built that have not
\* closed by Close() or "producerclose"; a Consume that succeeded has stored
\* its consumer and emitted the observer's "newconsumer" once each; a Consume
\* whose request was rejected has stored nothing and emitted nothing.
Count(ev, c) == Cardinality({i \in DOMAIN tlog : tlog[i].ev = ev /\ tlog[i].c = c})

C21_MapHoldsOpenConsumers ==
    /\ \A c \in consumers : c \in DOMAIN consumerOpen /\ consumerOpen[c]
    /\ \A c \in ConsumerIds : Count("store", c) <= 1 /\ Count("obs:newconsumer", c) <= 1
    /\ \A t \in Threads :
        tpc[t] = "consume_return" /\ tloc[t].cid # 0 =>
            IF tloc[t].err = "ok"
              THEN Count("store", tloc[t].cid) = 1 /\ Count("obs:newconsumer", tloc[t].cid) = 1
              ELSE /\ tloc[t].cid \notin consumers
                   /\ Count("store", tloc[t].cid) = 0
                   /\ Count("obs:newconsumer", tloc[t].cid) = 0

\* C14, on the owning PipeTransport: when a consumer the transport built
\* emits "@producerclose", the transport's consumers map has lost its entry.
C14_ProducerCloseRemovesEntry ==
    [][\A c \in ConsumerIds :
        (/\ Len(tlog') = Len(tlog) + 1
         /\ tlog'[Len(tlog')] = T("@producerclose", c, 0))
        => c \notin consumers']_vars

\* The kinds of the entries a step has added to the Consumer's log.
AddedKinds == {Added[i][1] : i \in DOMAIN Added}

\* C22: Close on an open Consumer sends "consumer.close" once, with both
\* listeners removed and before "@close"; "@close" comes before the
\* observer's "close"; no other request for the close is ever sent, and the
\* steps of transportClosed and of the "producerclose" handler send none.
C22_OnlyCloseTalksToWorker ==
    [][/\ N("req", "consumer.close")' <= 1
       /\ \A t \in Threads :
            /\ (pc[t] = "close_remove" /\ pc'[t] # "close_remove")
                 => /\ call[t].op = "Close" /\ ~call[t].closedAtCall
                    /\ Added = <<(<<"req", "consumer.close">>)>>
                    /\ ~chanListener' /\ ~payListener'
                    /\ N("emit", "@close") = 0
            /\ (pc[t] = "close_wait" /\ pc'[t] # "close_wait")
                 => /\ N("req", "consumer.close") = 1
                    /\ Added = <<(<<"emit", "@close">>), (<<"obs", "close">>)>>
            /\ (pc[t] \in {"tc_remove", "pc_cas", "pc_emit"} /\ pc'[t] # pc[t])
                 => "req" \notin AddedKinds
            /\ ((TransportClosed(t) \/ NotifyProducerClose(t)) => log' = log)
            /\ (Close(t) /\ closed # 0) => log' = log /\ pc'[t] = "idle"]_vars

\* Close has sent its request and emitted both events; every other call the
\* run makes has ended and has added nothing to the log.
C22_Witness ==
    /\ unit = "Consumer"
    /\ Len(log) = 3
    /\ log[1].ev = "consumer.close" /\ log[2].ev = "@close" /\ log[3].ev = "close"
    /\ nops = MaxOps
    /\ \A t \in Threads : pc[t] = "idle"

\* C23: when the response to "consumer.pause" or "consumer.resume" is an
\* error, the call returns that error, paused and producerPaused are what they
\* were when the call began, and neither "pause" nor "resume" is emitted.
C23_FailedPauseChangesNothing ==
    [][\A t \in Threads :
        (/\ pc[t] \in {"pause_wait", "resume_wait"}
         /\ pc'[t] = "idle"
         /\ ret'[t] # "ok")
        => /\ ret'[t] = "Error"
           /\ paused' = paused
           /\ producerPaused' = producerPaused
           /\ wasPaused[t] = (paused \/ producerPaused)
           /\ log' = log]_vars

\* On a Consumer that a Pause has paused, a later call has got the worker's
\* error back: paused is still set and "pause" is still the only event.
C23_Witness ==
    /\ unit = "Consumer"
    /\ paused /\ ~params.paused
    /\ nops = MaxOps
    /\ \E t \in Threads : pc[t] = "idle" /\ ret[t] = "Error"
    /\ Len(log) = 1 /\ log[1].ev = "pause"
    /\ closed = 0

\* The Consumer's "producerpause" and "producerresume" events, in the order
\* emitted.
IsProducerPauseResume(e) == e.k = "emit" /\ e.ev \in {"producerpause", "producerresume"}
ProducerPauseResume == SelectSeq(log, IsProducerPauseResume)
Alternate(seq) == \A i \in 1..(Len(seq) - 1) : seq[i].ev # seq[i + 1].ev

\* C24: a "producerpause" handled while producerPaused is set, and a
\* "producerresume" handled while it is clear, changes no field and emits
\* nothing; the Consumer's "producerpause" and "producerresume" events
\* alternate.
C24_ProducerPauseIdempotent ==
    [][/\ Alternate(ProducerPauseResume)'
       /\ \A t \in Threads :
            (/\ pc'[t] # pc[t]
             /\ \/ pc[t] = "pp_body" /\ producerPaused
                \/ pc[t] = "pr_body" /\ ~producerPaused)
            => UNCHANGED <<log, closed, paused, producerPaused, priority, score,
                           preferredLayers, currentLayers, emitted, writes>>]_vars

\* "producerpause" was emitted once, producerPaused is set, and the handler of
\* a second "producerpause" holds the mutex and is about to find it set.
C24_Witness ==
    /\ unit = "Consumer"
    /\ ~params.producerPaused
    /\ producerPaused
    /\ ProducerPauseResume = <<[k |-> "emit", ev |-> "producerpause", locked |-> TRUE]>>
    /\ \E t \in Threads : pc[t] = "pp_body" /\ locker = t

\* C25: no step emits "rtp" on a Consumer whose closed flag is set.
C25_NoRtpAfterClose ==
    [][\A t \in Threads :
        (pc[t] = "rtp_emit" /\ pc'[t] # "rtp_emit") => closed = 0]_vars

\* C26: when a Consumer is closed and no thread is inside a close any more,
\* neither the channel nor the payload channel has a listener under its id.
C26_NoListenerAfterClose ==
    (closed = 1 /\ \A t \in Threads : ~Closing(t))
        => ~chanListener /\ ~payListener

\* C27: when CreateRouter is about to return an error, the worker process
\* has no router under the routerId the call generated.
C27_FailedCreateRouterLeavesNothing ==
    \A t \in Threads :
        (wpc[t] = "create_return" /\ wloc[t].err # "ok")
            => wloc[t].rid \notin workerRouters

\* C28: when Worker.Close has run to its end and no CreateRouter is under
\* way, every router a CreateRouter has built is closed and the routers map
\* is empty.
C28_NoOpenRouterAfterClose ==
    (/\ WN("obs:close", 0) > 0
     /\ \A t \in Threads : wpc[t] = "idle")
        => /\ w_routers = {}
           /\ \A r \in DOMAIN routerClosed : routerClosed[r]

\* Inside Close or routerClosed, past the test of Closed().
InTransportClose(t) == tpc[t] \in {"close_sctp", "close_base", "rclosed_sctp", "rclosed_base"}

\* C29: a PipeTransport that Close() or routerClosed() has closed has
\* sctpState "closed" if SCTP is in use and the empty sctpState otherwise; a
\* Close() or routerClosed() called on a closed transport does not reach the
\* base transport and changes nothing.
C29_ClosedTransportSctpState ==
    [][/\ (t_closed' /\ \A t \in Threads : ~InTransportClose(t)')
            => sctpState' \in {"", SctpState_Closed}
       /\ \A t \in Threads :
            (/\ t_closed
             /\ \E how \in {"base.Close", "base.routerClosed"} : PipeTransportClose(t, how))
            => /\ tpc'[t] = "idle"
               /\ UNCHANGED <<sctpState, t_closed, t_listener, tlog, consumers>>]_vars

====
